---- MODULE Spec2Model ----
(***************************************************************************)
(* Model of PrepareDataMathChatSync                                        *)
(* (src/dataset/reasoning_generation_math_chat_sync.py).                   *)
(*                                                                         *)
(* The object holds a corpus `data` (a list of conversations, each a list  *)
(* of utterances) and a `depth_map` dict.  Its methods prune the corpus,   *)
(* downsample it per depth, expand it into one example per "gpt"           *)
(* utterance and write generated thoughts back.                            *)
(*                                                                         *)
(* Python lists are modelled as sequences.  Python indices are 0-based and *)
(* are kept 0-based wherever the code stores them (depth_map, the removal  *)
(* lists); element idx of a list s is s[idx + 1].                          *)
(***************************************************************************)
EXTENDS Integers, Sequences, FiniteSets, TLC

VARIABLES
    data,        \* self.data: the corpus
    depth_map,   \* self.depth_map: insertion-ordered dict depth -> indices
    call,        \* the last method call and its arguments
    ret,         \* what that call returned
    err,         \* the exception that call raised, or NoError
    old_data,    \* self.data when that call started
    old_depth_map, \* self.depth_map when that call started
    shuffled     \* self.data right after random.shuffle in random_sample

vars == <<data, depth_map, call, ret, err, old_data, old_depth_map, shuffled>>

----------------------------------------------------------------------------
(* Small helpers.                                                          *)

Min(a, b) == IF a <= b THEN a ELSE b

Max(a, b) == IF a >= b THEN a ELSE b

Range(s) == {s[i] : i \in 1..Len(s)}

NoError == "none"

None == "None"

\* An utterance dict has no "reasoning" key until set_data writes one.
NoReasoning == "<absent>"

----------------------------------------------------------------------------
(* Conversations.                                                          *)
(*                                                                         *)
(* An utterance is a dict with "from" and "value"; set_data adds           *)
(* "reasoning".  A conversation is a dict whose "conversations" entry is   *)
(* the utterance list; `id` stands for the identity of the Python object   *)
(* (the position it was loaded at), so that two conversations with equal   *)
(* content remain distinguishable when the corpus is reordered.            *)

Roles == {"human", "gpt"}

Utterance(role, i) == [from |-> role, value |-> i, reasoning |-> NoReasoning]

\* The conversation loaded at position id whose utterance roles are `roles`.
Conversation(id, roles) ==
    [id |-> id,
     conversations |-> [i \in 1..Len(roles) |-> Utterance(roles[i], i)]]

\* A strictly alternating conversation of n utterances starting with human.
Alternating(n) == [i \in 1..n |-> IF i % 2 = 1 THEN "human" ELSE "gpt"]

\* The corpus json.load returns for the given list of role lists.
Load(shapes) == [i \in 1..Len(shapes) |-> Conversation(i - 1, shapes[i])]

\* All sequences over S of length at most n.
SeqsUpTo(S, n) == UNION {[1..k -> S] : k \in 0..n}

----------------------------------------------------------------------------
(* Python dicts.  A dict iterates in insertion order, so depth_map is a    *)
(* sequence of (key, val) entries in the order the keys were first set.    *)

HasKey(d, k) == \E i \in 1..Len(d) : d[i].key = k

\* d[k]; the caller checks HasKey first (Python raises KeyError otherwise).
Get(d, k) == d[CHOOSE i \in 1..Len(d) : d[i].key = k].val

\* d[k] = v
Put(d, k, v) ==
    IF HasKey(d, k)
    THEN [d EXCEPT ![CHOOSE i \in 1..Len(d) : d[i].key = k].val = v]
    ELSE Append(d, [key |-> k, val |-> v])

----------------------------------------------------------------------------
(* Python lists.                                                           *)

\* enumerate(s) yields the indices 0 .. len(s)-1 in order.
Indices(s) == [i \in 1..Len(s) |-> i - 1]

\* s[k:] for k >= 0
SliceFrom(s, k) == SubSeq(s, k + 1, Len(s))

\* s[:k] for k >= 0
SliceTo(s, k) == SubSeq(s, 1, Min(k, Len(s)))

\* s[::-1]
Reverse(s) == [i \in 1..Len(s) |-> s[Len(s) + 1 - i]]

\* s.pop(idx) for 0 <= idx < len(s): the list without element idx.
Pop(s, idx) == SubSeq(s, 1, idx) \o SubSeq(s, idx + 2, Len(s))

\* for idx in idxs: s.pop(idx)
RECURSIVE PopAll(_, _)
PopAll(s, idxs) ==
    IF idxs = <<>> THEN s ELSE PopAll(Pop(s, Head(idxs)), Tail(idxs))

\* Insert x into the descending list s, before the first smaller element.
RECURSIVE InsertDesc(_, _)
InsertDesc(x, s) ==
    IF s = <<>> THEN <<x>>
    ELSE IF x >= Head(s) THEN <<x>> \o s
    ELSE <<Head(s)>> \o InsertDesc(x, Tail(s))

\* sorted(s, reverse=True)
RECURSIVE SortedReverse(_)
SortedReverse(s) ==
    IF s = <<>> THEN <<>> ELSE InsertDesc(Head(s), SortedReverse(Tail(s)))

----------------------------------------------------------------------------
(* int(len(conversation["conversations"]) / 2): the true quotient of a     *)
(* length by 2 is exact in double precision, and int() truncates it.       *)

Depth(conversation) == Len(conversation.conversations) \div 2

----------------------------------------------------------------------------
(* prune_depth_six                                                         *)

\* The depth whose conversations are capped (the literal 6 of line 57).
PruneDepth == 6

\* How many conversations of that depth are kept.  The code's literal is
\* 30000 (line 57); the model scales it down so that corpora with more than
\* that many depth-6 conversations can be enumerated.
KeepCount == 2

\* for idx in idxs: s.pop(idx), stopping where Python raises IndexError
\* because idx is no index of the list any more.
RECURSIVE PopAllChecked(_, _)
PopAllChecked(s, idxs) ==
    IF idxs = <<>> \/ Head(idxs) >= Len(s) THEN s
    ELSE PopAllChecked(Pop(s, Head(idxs)), Tail(idxs))

\* prune_depth_six popping in ascending order (without the [::-1]).
prune_depth_six_ascending(d) ==
    LET indices_to_remove ==
            SliceFrom(SelectSeq(Indices(d),
                                LAMBDA idx : Depth(d[idx + 1]) = PruneDepth),
                      KeepCount)
    IN  PopAllChecked(d, indices_to_remove)

prune_depth_six(d) ==
    LET indices_to_remove ==
            SliceFrom(SelectSeq(Indices(d),
                                LAMBDA idx : Depth(d[idx + 1]) = PruneDepth),
                      KeepCount)
    IN  PopAll(d, Reverse(indices_to_remove))

----------------------------------------------------------------------------
(* fill_depth_map                                                          *)

\* Lines 85-86: a depth met for the first time gets an empty list.
EnsureKey(dm, depth) == IF ~HasKey(dm, depth) THEN Put(dm, depth, <<>>) ELSE dm

\* Lines 85-87 for the conversation at index idx, of the given depth.
FillStep(dm, depth, idx) ==
    Put(EnsureKey(dm, depth), depth, Append(Get(EnsureKey(dm, depth), depth), idx))

\* The loop of lines 84-87 from index idx on, dm being the dict so far.
RECURSIVE FillFrom(_, _, _)
FillFrom(dm, d, idx) ==
    IF idx >= Len(d) THEN dm
    ELSE FillFrom(FillStep(dm, Depth(d[idx + 1]), idx), d, idx + 1)

\* fill_depth_map without line 81: the loop adds to the dict as it is.
fill_depth_map_stale(d) == FillFrom(depth_map, d, 0)

\* self.depth_map = {} and then the loop: the old dict plays no part.
fill_depth_map(d) == FillFrom(<<>>, d, 0)

----------------------------------------------------------------------------
(* get_sampling_count                                                      *)
(*                                                                         *)
(* Line 72 computes int((len(bucket) / size) * num_samples) in double      *)
(* precision: a division rounded to 53 significant bits, a multiplication  *)
(* rounded again, and int() truncating toward zero.  With a = len(bucket), *)
(* b = size and n = num_samples (all far below 2^24) the result is         *)
(* determined by integer arithmetic as follows.                            *)
(*                                                                         *)
(*   q  = fl(a / b) = (a * 2^(52-e) + delta) / (b * 2^(52-e)),             *)
(*        where 2^e <= a/b < 2^(e+1), r = a * 2^(52-e) mod b and delta is  *)
(*        -r (rounded down) or b - r (rounded up, when 2r > b);            *)
(*   y  = q * n = a*n/b + n*delta / (b * 2^(52-e)) exactly;                *)
(*   fl(y) >= X for an integer X in [2^k, 2^(k+1)) iff y is at least the   *)
(*        midpoint between X and the double before it, X - 2^(k-53)        *)
(*        (X - 2^(k-54) when X = 2^k).                                     *)
(*                                                                         *)
(* When a*n/b is not an integer its distance to the next integers is at    *)
(* least 1/b, far more than both rounding errors, so int(fl(y)) is the     *)
(* floor of a*n/b.  When a*n/b is an integer X, fl(y) is X or just below   *)
(* it, and int() then yields X or X - 1.                                   *)

RECURSIVE Pow2(_)
Pow2(j) == IF j <= 0 THEN 1 ELSE 2 * Pow2(j - 1)

\* The largest k with 2^k <= x, for x >= 1.
RECURSIVE FloorLog2(_)
FloorLog2(x) == IF x < 2 THEN 0 ELSE 1 + FloorLog2(x \div 2)

\* The binary exponent e of a/b: 2^e <= a/b < 2^(e+1), for a, b >= 1.
RECURSIVE ExponentBelow(_, _, _)
ExponentBelow(a, b, j) == IF a * Pow2(j) >= b THEN -j ELSE ExponentBelow(a, b, j + 1)

RECURSIVE ExponentAbove(_, _, _)
ExponentAbove(a, b, j) == IF b * Pow2(j + 1) > a THEN j ELSE ExponentAbove(a, b, j + 1)

BinaryExponent(a, b) ==
    IF a >= b THEN ExponentAbove(a, b, 0) ELSE ExponentBelow(a, b, 1)

\* (r * 2^times) mod b
RECURSIVE DoubleMod(_, _, _)
DoubleMod(r, b, times) ==
    IF times <= 0 THEN r % b ELSE DoubleMod((2 * r) % b, b, times - 1)

\* The significand of a double has 53 bits (52 stored).
MantissaBits == 52

\* delta: b * 2^(52-e) * (fl(a/b) - a/b), the rounding error of the division
\* in units of the last place, times b.
DivisionError(a, b) ==
    LET r == DoubleMod(a, b, MantissaBits - BinaryExponent(a, b))
    IN  IF 2 * r > b THEN b - r ELSE -r

IsPow2(x) == x = Pow2(FloorLog2(x))

\* Whether fl(fl(a/b) * n) >= X when a*n/b is exactly the integer X >= 1.
ProductReaches(a, b, n, X) ==
    LET e == BinaryExponent(a, b)
        k == FloorLog2(X)
        p == IF IsPow2(X) THEN 1 ELSE 0
    IN  4 * n * DivisionError(a, b) + b * Pow2(k - e + 1 - p) >= 0

\* round((a / b) * n): the share rounded to the nearest integer instead.
RoundedShare(a, b, n) == (2 * a * n + b) \div (2 * b)

\* int((a / b) * n) for a, n >= 0 and b >= 1.
TruncatedShare(a, b, n) ==
    IF a = 0 \/ n = 0 THEN 0
    ELSE IF (a * n) % b # 0 THEN (a * n) \div b
    ELSE LET X == (a * n) \div b
         IN  IF ProductReaches(a, b, n, X) THEN X ELSE X - 1

\* The floor of line 72: a bucket keeps at least this many, or all it has.
\* The code's literal is 200; the model scales it down so that buckets
\* larger than the floor can be enumerated (the loops over the corpus are
\* modelled by recursion, which limits the corpus to some tens of entries).
MinPerDepth == 1

\* The count without the floor: the proportional share alone.
SamplingCountNoFloor(bucket_len, size, num_samples) ==
    TruncatedShare(bucket_len, size, num_samples)

\* max(min(200, len(bucket)), int((len(bucket) / size) * num_samples)),
\* with MinPerDepth for the 200.
SamplingCount(bucket_len, size, num_samples) ==
    Max(Min(MinPerDepth, bucket_len), TruncatedShare(bucket_len, size, num_samples))

\* get_sampling_count reading the bucket with dm.get(depth, []): a depth
\* without a bucket counts as an empty one.
get_sampling_count_default(dm, d, depth, num_samples) ==
    IF Len(d) = 0 THEN [err |-> "ZeroDivisionError", ret |-> None]
    ELSE [err |-> NoError,
          ret |-> SamplingCount(IF HasKey(dm, depth) THEN Len(Get(dm, depth)) ELSE 0,
                                Len(d), num_samples)]

\* The call's outcome: the exception it raises, and the value it returns.
get_sampling_count(dm, d, depth, num_samples) ==
    IF ~HasKey(dm, depth) THEN [err |-> "KeyError", ret |-> None]
    ELSE IF Len(d) = 0 THEN [err |-> "ZeroDivisionError", ret |-> None]
    ELSE [err |-> NoError,
          ret |-> SamplingCount(Len(Get(dm, depth)), Len(d), num_samples)]

----------------------------------------------------------------------------
(* random_sample                                                           *)

\* The list s rearranged by the permutation p of 1..Len(s).
Permute(s, p) == [i \in 1..Len(s) |-> s[p[i]]]

\* Lines 97-102: the loop over depth_map.items(), from entry i on.  The
\* depths asked about are keys of dm, and the corpus is not empty when dm
\* has a key, so get_sampling_count returns.
RECURSIVE IndicesToRemove(_, _, _, _)
IndicesToRemove(dm, d, num_samples, i) ==
    IF i > Len(dm) THEN <<>>
    ELSE LET sampling_count ==
                 get_sampling_count(dm, d, dm[i].key, num_samples).ret
         IN  SliceFrom(dm[i].val, sampling_count)
                 \o IndicesToRemove(dm, d, num_samples, i + 1)

\* The same with each bucket's removals popped in descending order as the
\* loop meets them, bucket after bucket, instead of one sorted pass.
RECURSIVE RemovePerBucket(_, _, _, _, _)
RemovePerBucket(s, dm, size, num_samples, i) ==
    IF i > Len(dm) THEN s
    ELSE RemovePerBucket(
             PopAllChecked(s, Reverse(SliceFrom(dm[i].val,
                 SamplingCount(Len(dm[i].val), size, num_samples)))),
             dm, size, num_samples, i + 1)

SampleShuffledPerBucket(sh, num_samples) ==
    RemovePerBucket(sh, fill_depth_map(sh), Len(sh), num_samples, 1)

\* Lines 95-106 on the shuffled corpus sh: the corpus left.
SampleShuffled(sh, num_samples) ==
    LET dm == fill_depth_map(sh)
        indices_to_remove == IndicesToRemove(dm, sh, num_samples, 1)
    IN  PopAll(sh, SortedReverse(indices_to_remove))

----------------------------------------------------------------------------
(* get_data                                                                *)

\* Examples with the prefix cut before the "gpt" utterance ([:idx]).
ExamplesExclusive(conversation) ==
    LET utterances == conversation.conversations
        gpt == SelectSeq(Indices(utterances),
                         LAMBDA idx : utterances[idx + 1].from = "gpt")
    IN  [k \in 1..Len(gpt) |-> [conversations |-> SliceTo(utterances, gpt[k])]]

\* The examples of one conversation: one prefix per "gpt" utterance.
Examples(conversation) ==
    LET utterances == conversation.conversations
        gpt == SelectSeq(Indices(utterances),
                         LAMBDA idx : utterances[idx + 1].from = "gpt")
    IN  [k \in 1..Len(gpt) |-> [conversations |-> SliceTo(utterances, gpt[k] + 1)]]

\* The outer loop of lines 112-117 from conversation i on.
RECURSIVE ExamplesFrom(_, _)
ExamplesFrom(d, i) ==
    IF i > Len(d) THEN <<>> ELSE Examples(d[i]) \o ExamplesFrom(d, i + 1)

\* Dataset.from_list keeps the rows and their order.
get_data(d) == ExamplesFrom(d, 1)

----------------------------------------------------------------------------
(* set_data                                                                *)

\* range(1, n, 2) as a list: 1, 3, 5, ... below n.
OddRange(n) == [k \in 1..(n \div 2) |-> 2 * k - 1]

\* The inner loop of lines 123-125 over the positions idxs still to visit.
\* Indexing the Dataset at or past its length raises IndexError, and the
\* writes made before that stay.
RECURSIVE SetConversation(_, _, _, _)
SetConversation(utterances, idxs, thoughts, next_thought_idx) ==
    IF idxs = <<>>
    THEN [utterances |-> utterances, next |-> next_thought_idx, err |-> NoError]
    ELSE IF next_thought_idx >= Len(thoughts)
    THEN [utterances |-> utterances, next |-> next_thought_idx, err |-> "IndexError"]
    ELSE SetConversation(
             [utterances EXCEPT ![Head(idxs) + 1].reasoning =
                                    thoughts[next_thought_idx + 1].thought],
             Tail(idxs), thoughts, next_thought_idx + 1)

\* The outer loop of line 122 from conversation i on.
RECURSIVE SetFrom(_, _, _, _)
SetFrom(d, i, thoughts, next_thought_idx) ==
    IF i > Len(d) THEN [data |-> d, err |-> NoError]
    ELSE LET r == SetConversation(d[i].conversations,
                                  OddRange(Len(d[i].conversations)),
                                  thoughts, next_thought_idx)
             d1 == [d EXCEPT ![i].conversations = r.utterances]
         IN  IF r.err # NoError THEN [data |-> d1, err |-> r.err]
             ELSE SetFrom(d1, i + 1, thoughts, r.next)

set_data(d, thoughts) == SetFrom(d, 1, thoughts, 0)

----------------------------------------------------------------------------
(* The methods as actions on the object's state.                           *)

\* __init__: depth_map = {} and data = json.load(f).
Loaded(corpus) ==
    /\ data = corpus
    /\ depth_map = <<>>
    /\ call = [op |-> "__init__"]
    /\ ret = None
    /\ err = NoError
    /\ old_data = corpus
    /\ old_depth_map = <<>>
    /\ shuffled = corpus

PruneDepthSix ==
    /\ data' = prune_depth_six(data)
    /\ call' = [op |-> "prune_depth_six"]
    /\ ret' = "self"
    /\ err' = NoError
    /\ old_data' = data
    /\ old_depth_map' = depth_map
    /\ UNCHANGED <<depth_map, shuffled>>

FillDepthMap ==
    /\ depth_map' = fill_depth_map(data)
    /\ call' = [op |-> "fill_depth_map"]
    /\ ret' = None
    /\ err' = NoError
    /\ old_data' = data
    /\ old_depth_map' = depth_map
    /\ UNCHANGED <<data, shuffled>>

GetSamplingCount(depth, num_samples) ==
    LET r == get_sampling_count(depth_map, data, depth, num_samples)
    IN  /\ call' = [op |-> "get_sampling_count", depth |-> depth,
                    num_samples |-> num_samples]
        /\ ret' = r.ret
        /\ err' = r.err
        /\ old_data' = data
        /\ old_depth_map' = depth_map
        /\ UNCHANGED <<data, depth_map, shuffled>>

\* random.shuffle with the generator seeded to 42 applies one fixed
\* permutation for each list length; p is that permutation, which the model
\* leaves open.
RandomSample(num_samples, p) ==
    LET sh == Permute(data, p)
    IN  /\ shuffled' = sh
        /\ depth_map' = fill_depth_map(sh)
        /\ data' = SampleShuffled(sh, num_samples)
        /\ call' = [op |-> "random_sample", num_samples |-> num_samples]
        /\ ret' = "self"
        /\ err' = NoError
        /\ old_data' = data
        /\ old_depth_map' = depth_map

GetData ==
    /\ ret' = get_data(data)
    /\ call' = [op |-> "get_data"]
    /\ err' = NoError
    /\ old_data' = data
    /\ old_depth_map' = depth_map
    /\ UNCHANGED <<data, depth_map, shuffled>>

SetData(thoughts) ==
    LET r == set_data(data, thoughts)
    IN  /\ data' = r.data
        /\ call' = [op |-> "set_data", thoughts |-> thoughts]
        /\ ret' = None
        /\ err' = r.err
        /\ old_data' = data
        /\ old_depth_map' = depth_map
        /\ UNCHANGED <<depth_map, shuffled>>

----------------------------------------------------------------------------
(* Expansion and reattachment: corpora of every role pattern.              *)

MaxConversations == 2

MaxUtterances == 3

MaxThoughts == 2

\* The generated texts.
Texts == {"a", "b"}

RoleLists == SeqsUpTo(Roles, MaxUtterances)

ThoughtLists == SeqsUpTo([thought : Texts], MaxThoughts)

InitData == \E shapes \in SeqsUpTo(RoleLists, MaxConversations) : Loaded(Load(shapes))

\* main() calls get_data and then set_data with what the curator returned;
\* the curator is outside the program, so any list of rows may come back.
NextData ==
    \/ call.op = "__init__" /\ GetData
    \/ call.op \in {"__init__", "get_data"} /\ \E thoughts \in ThoughtLists : SetData(thoughts)

SpecData == InitData /\ [][NextData]_vars

----------------------------------------------------------------------------
(* Pruning and indexing: corpora of conversations around depth 6.          *)

MaxPruneCorpus == 5

\* Utterance counts 2, 11, 12, 13 and 14: depths 1, 5, 6, 6 and 7.
PruneShapes ==
    {Alternating(2)} \cup
    {Alternating(n) : n \in (2 * PruneDepth - 1)..(2 * PruneDepth + 2)}

InitPrune == \E shapes \in SeqsUpTo(PruneShapes, MaxPruneCorpus) : Loaded(Load(shapes))

NextPrune == PruneDepthSix \/ FillDepthMap

SpecPrune == InitPrune /\ [][NextPrune]_vars

----------------------------------------------------------------------------
(* Sampling: corpora of a few depths, shuffled in every way.               *)

\* The corpus with counts[d] conversations of depth d, for d = 1, 2, ...,
\* depth after depth.
RECURSIVE BlockShapes(_, _)
BlockShapes(counts, d) ==
    IF d > Len(counts) THEN <<>>
    ELSE [i \in 1..counts[d] |-> Alternating(2 * d)] \o BlockShapes(counts, d + 1)

BlockCorpus(counts) == Load(BlockShapes(counts, 1))

MaxSampleCorpus == 5

MaxNumSamples == 3

\* main() asks for 8000 samples (line 129).
MainNumSamples == 8000

SampleCounts ==
    {c \in (0..MaxSampleCorpus) \X (0..MaxSampleCorpus) \X (0..1) :
         c[1] + c[2] + c[3] <= MaxSampleCorpus}

\* The rearrangements of a list of n: random.shuffle yields one of them.
ListPermutations(n) == Permutations(1..n)

NumSamples == (0..MaxNumSamples) \cup {MainNumSamples}

InitSample == \E counts \in SampleCounts : Loaded(BlockCorpus(counts))

\* main() samples the corpus once.
NextSample ==
    /\ call.op = "__init__"
    /\ \E num_samples \in NumSamples, p \in ListPermutations(Len(data)) :
           RandomSample(num_samples, p)

SpecSample == InitSample /\ [][NextSample]_vars

----------------------------------------------------------------------------
(* get_sampling_count on its own: the index of a corpus, then queries.     *)

MaxCountCorpus == 15

\* Sample sizes asked for, among them 55 and 100 for which the double
\* product of line 72 can fall just below an integer quotient.
QueryNumSamples == {0, 1, 55, 100, MainNumSamples}

CountCounts ==
    {c \in (0..MaxCountCorpus) \X (0..MaxCountCorpus) : c[1] + c[2] <= MaxCountCorpus}

InitCount == \E counts \in CountCounts : Loaded(BlockCorpus(counts))

NextCount ==
    \/ FillDepthMap
    \/ \E depth \in 0..3, num_samples \in QueryNumSamples :
           GetSamplingCount(depth, num_samples)

SpecCount == InitCount /\ [][NextCount]_vars

----------------------------------------------------------------------------
(* Properties of expansion and reattachment (SpecData).                    *)

\* The places <<c, u>> of the assistant-like ("gpt") utterances of a corpus:
\* utterance u of conversation c, both counted from 1.
GptPlaces(d) ==
    UNION {{<<c, u>> : u \in {v \in 1..Len(d[c].conversations) :
                                 d[c].conversations[v].from = "gpt"}} :
           c \in 1..Len(d)}

\* Conversation order, then occurrence order.
NotAfter(p, q) == p[1] < q[1] \/ (p[1] = q[1] /\ p[2] <= q[2])

\* The number k such that p is the k-th of the places.
Rank(places, p) == Cardinality({q \in places : NotAfter(q, p)})

\* The corpus d with result k written into the annotation field of the
\* k-th assistant-like utterance, and nothing else changed.
Annotated(d, thoughts) ==
    [c \in 1..Len(d) |->
        [d[c] EXCEPT !.conversations =
            [u \in 1..Len(d[c].conversations) |->
                IF <<c, u>> \in GptPlaces(d)
                THEN [d[c].conversations[u] EXCEPT
                          !.reasoning = thoughts[Rank(GptPlaces(d), <<c, u>>)].thought]
                ELSE d[c].conversations[u]]]]

\* C5: get_data returns one example per assistant-like utterance, in
\* conversation order then occurrence order; example k is the prefix of its
\* conversation up to and including the k-th assistant-like utterance; the
\* corpus is left as it was.
C5_ExpandYieldsPrefixes ==
    call.op = "get_data" =>
        /\ data = old_data
        /\ Len(ret) = Cardinality(GptPlaces(data))
        /\ \A p \in GptPlaces(data) :
               ret[Rank(GptPlaces(data), p)] =
                   [conversations |-> SubSeq(data[p[1]].conversations, 1, p[2])]

\* get_data has run on two conversations with three assistant-like
\* utterances between them, one of which opens its conversation.
C5_Witness ==
    /\ call.op = "get_data"
    /\ Len(data) = 2
    /\ Len(ret) = 3
    /\ \E p \in GptPlaces(data) : p[2] = 1

\* C1: given exactly as many results as the corpus has assistant-like
\* utterances, set_data writes result k into the annotation field of the
\* k-th assistant-like utterance (conversation order, then occurrence
\* order) and into no other utterance, whatever the role pattern.
C1_ReattachInvertsExpand ==
    (call.op = "set_data" /\ Len(call.thoughts) = Cardinality(GptPlaces(old_data))) =>
        /\ err = NoError
        /\ data = Annotated(old_data, call.thoughts)

\* C2: given fewer results than the corpus has assistant-like utterances,
\* set_data raises instead of completing.
C2_TooFewResultsRaise ==
    (call.op = "set_data" /\ Len(call.thoughts) < Cardinality(GptPlaces(old_data))) =>
        err # NoError

\* C10: given more results than the corpus has assistant-like utterances,
\* set_data completes, attaches the first N in order to the N assistant-like
\* utterances and ignores the rest.
C10_SurplusResultsDiscarded ==
    (call.op = "set_data" /\ Len(call.thoughts) > Cardinality(GptPlaces(old_data))) =>
        /\ err = NoError
        /\ data = Annotated(old_data,
                            SubSeq(call.thoughts, 1, Cardinality(GptPlaces(old_data))))

----------------------------------------------------------------------------
(* Properties of pruning and indexing (SpecPrune).                         *)

\* floor(len(utterances) / 2) = k
HasDepth(conversation, k) ==
    /\ 2 * k <= Len(conversation.conversations)
    /\ Len(conversation.conversations) < 2 * k + 2

\* The positions (from 1) of the conversations of depth k in d.
AtDepth(d, k) == {i \in 1..Len(d) : HasDepth(d[i], k)}

\* result is d restricted to the positions in kept, in d's order.
IsRestriction(result, d, kept) ==
    /\ Len(result) = Cardinality(kept)
    /\ \A i \in kept : result[Cardinality({j \in kept : j <= i})] = d[i]

\* The positions prune(d, depth, k) is to keep: every conversation of
\* another depth, and the first k of that depth.
KeptByPrune(d, depth, k) ==
    {i \in 1..Len(d) :
        \/ ~HasDepth(d[i], depth)
        \/ Cardinality({j \in AtDepth(d, depth) : j <= i}) <= k}

\* C4: prune_depth_six leaves the first KeepCount conversations of depth 6
\* and every conversation of another depth, all in their original order;
\* min(KeepCount, count before) conversations of depth 6 remain; a corpus
\* with no more than KeepCount of them is unchanged.
C4_PruneKeepsFirst ==
    call.op = "prune_depth_six" =>
        /\ IsRestriction(data, old_data, KeptByPrune(old_data, PruneDepth, KeepCount))
        /\ Cardinality(AtDepth(data, PruneDepth)) =
               Min(KeepCount, Cardinality(AtDepth(old_data, PruneDepth)))
        /\ \A k \in 0..(PruneDepth + 1) :
               k # PruneDepth =>
                   Cardinality(AtDepth(data, k)) = Cardinality(AtDepth(old_data, k))
        /\ Cardinality(AtDepth(old_data, PruneDepth)) <= KeepCount => data = old_data

\* prune_depth_six has removed two conversations of depth 6 from the middle
\* of the corpus: one of depth 6 and then one of another depth follow them.
C4_Witness ==
    /\ call.op = "prune_depth_six"
    /\ Len(data) = Len(old_data) - 2
    /\ ~HasDepth(old_data[Len(old_data)], PruneDepth)
    /\ HasDepth(old_data[Len(old_data) - 1], PruneDepth)
    /\ \E i \in 1..Len(old_data) :
           /\ HasDepth(old_data[i], PruneDepth)
           /\ Cardinality({j \in AtDepth(old_data, PruneDepth) : j <= i}) = KeepCount + 1
           /\ i < Len(old_data) - 1

\* The slots <<i, j>> of a depth index: entry i, position j of its list.
Slots(dm) == UNION {{<<i, j>> : j \in 1..Len(dm[i].val)} : i \in 1..Len(dm)}

\* C7: fill_depth_map leaves an index that partitions the positions of the
\* corpus: every position is in exactly one bucket, the bucket's key is
\* floor(len(utterances) / 2) of the conversation there, each bucket is in
\* ascending order, and nothing of an earlier index remains.
C7_IndexPartitionsCorpus ==
    call.op = "fill_depth_map" =>
        /\ \A idx \in 0..(Len(data) - 1) :
               Cardinality({s \in Slots(depth_map) : depth_map[s[1]].val[s[2]] = idx}) = 1
        /\ \A s \in Slots(depth_map) :
               /\ depth_map[s[1]].val[s[2]] \in 0..(Len(data) - 1)
               /\ HasDepth(data[depth_map[s[1]].val[s[2]] + 1], depth_map[s[1]].key)
        /\ \A i \in 1..Len(depth_map) :
               /\ Len(depth_map[i].val) > 0
               /\ \A j, k \in 1..Len(depth_map[i].val) :
                      j < k => depth_map[i].val[j] < depth_map[i].val[k]
               /\ \A k \in 1..Len(depth_map) : depth_map[k].key = depth_map[i].key => k = i

\* fill_depth_map has rebuilt the index of a corpus of several depths whose
\* earlier index prune_depth_six had made stale.
C7_Witness ==
    /\ call.op = "fill_depth_map"
    /\ old_depth_map # <<>>
    /\ old_depth_map # depth_map
    /\ Len(depth_map) >= 3
    /\ \E i \in 1..Len(depth_map) : Len(depth_map[i].val) >= 2

----------------------------------------------------------------------------
(* Properties of sampling (SpecSample).                                    *)

SameDepth(a, b) == Len(a.conversations) \div 2 = Len(b.conversations) \div 2

\* The positions of d whose conversation has the depth of conversation c.
Bucket(d, c) == {j \in 1..Len(d) : SameDepth(d[j], c)}

\* How many of d's bucket of d[i] are at or before position i.
BucketRank(d, i) == Cardinality({j \in Bucket(d, d[i]) : j <= i})

\* sampleCount for the bucket of sh[i], against the shuffled corpus sh.
CountFor(sh, i, num_samples) ==
    SamplingCount(Cardinality(Bucket(sh, sh[i])), Len(sh), num_samples)

\* C3: after random_sample, every depth present holds
\* min(bucketSize, sampleCount) conversations, bucketSize and the corpus
\* size being those of the shuffled corpus before any removal, and every
\* bucket keeps at least min(MinPerDepth, bucketSize).
C3_SampleBucketCounts ==
    call.op = "random_sample" =>
        /\ \A j \in 1..Len(data) : \E i \in 1..Len(shuffled) : data[j] = shuffled[i]
        /\ \A i \in 1..Len(shuffled) :
               LET bucketSize == Cardinality(Bucket(shuffled, shuffled[i]))
                   left       == Cardinality(Bucket(data, shuffled[i]))
               IN  /\ left > 0 =>
                          left = Min(bucketSize, CountFor(shuffled, i, call.num_samples))
                   /\ left >= Min(MinPerDepth, bucketSize)

\* random_sample has cut one bucket down to its proportional share, above
\* the floor, and left another bucket, whose share is below the floor, with
\* min(MinPerDepth, bucketSize) conversations.
C3_Witness ==
    /\ call.op = "random_sample"
    /\ \E i \in 1..Len(shuffled) :
           /\ Cardinality(Bucket(data, shuffled[i])) > MinPerDepth
           /\ Cardinality(Bucket(data, shuffled[i])) < Cardinality(Bucket(shuffled, shuffled[i]))
    /\ \E i \in 1..Len(shuffled) :
           /\ TruncatedShare(Cardinality(Bucket(shuffled, shuffled[i])), Len(shuffled),
                             call.num_samples) < MinPerDepth
           /\ Cardinality(Bucket(data, shuffled[i])) =
                  Min(MinPerDepth, Cardinality(Bucket(shuffled, shuffled[i])))

\* The indices (from 0) random_sample is to remove: in each bucket of the
\* index, those beyond the bucket's sample count.
RemovalSet(dm, size, num_samples) ==
    {dm[s[1]].val[s[2]] : s \in {t \in Slots(dm) :
         t[2] > SamplingCount(Len(dm[t[1]].val), size, num_samples)}}

\* The numbers of S in descending order.
Descending(S) ==
    [k \in 1..Cardinality(S) |-> CHOOSE x \in S : Cardinality({y \in S : y >= x}) = k]

\* Popping idxs from s one after the other, each pop removes the
\* conversation that orig holds at that index.
RECURSIVE EachPopHits(_, _, _)
EachPopHits(s, idxs, orig) ==
    \/ idxs = <<>>
    \/ /\ Head(idxs) < Len(s)
       /\ s[Head(idxs) + 1] = orig[Head(idxs) + 1]
       /\ EachPopHits(Pop(s, Head(idxs)), Tail(idxs), orig)

\* C9: random_sample removes the positions beyond each bucket's sample
\* count, popping them in descending order over all buckets together; each
\* pop removes the conversation that held the position when the index was
\* built, and what is left is the first sampleCount conversations of each
\* bucket of the shuffled corpus, in their shuffled order.
C9_SampleKeepsBucketHeads ==
    call.op = "random_sample" =>
        /\ Len(shuffled) = Len(old_data)
        /\ \A c \in Range(old_data) : c \in Range(shuffled)
        /\ IsRestriction(data, shuffled,
               {i \in 1..Len(shuffled) :
                    BucketRank(shuffled, i) <= CountFor(shuffled, i, call.num_samples)})
        /\ EachPopHits(shuffled,
               Descending(RemovalSet(depth_map, Len(shuffled), call.num_samples)),
               shuffled)
        /\ Len(data) = Len(shuffled)
               - Cardinality(RemovalSet(depth_map, Len(shuffled), call.num_samples))

\* random_sample has removed conversations of two buckets, the first
\* bucket's removed position lying before the second's.
C9_Witness ==
    /\ call.op = "random_sample"
    /\ Len(depth_map) >= 2
    /\ \E a, b \in RemovalSet(depth_map, Len(shuffled), call.num_samples) :
           /\ a < b
           /\ a \in Range(depth_map[1].val)
           /\ b \in Range(depth_map[2].val)

----------------------------------------------------------------------------
(* Properties of get_sampling_count (SpecCount).                           *)

\* The size of the bucket the last call asked about.
AskedBucketSize == Len(Get(depth_map, call.depth))

\* C6 as stated: the count is max(min(MinPerDepth, bucketSize), the share
\* bucketSize / corpusSize * num_samples rounded to the nearest integer),
\* which is 67 for a bucket of 10 in a corpus of 15 and 100 samples.
C6_CountRoundsShare ==
    (call.op = "get_sampling_count" /\ err = NoError) =>
        /\ ret = Max(Min(MinPerDepth, AskedBucketSize),
                     RoundedShare(AskedBucketSize, Len(data), call.num_samples))
        /\ (AskedBucketSize = 10 /\ Len(data) = 15 /\ call.num_samples = 100) => ret = 67

\* C6 amended: the count is max(min(MinPerDepth, bucketSize), share) where
\* share is the double-precision product truncated toward zero: the floor
\* of bucketSize * num_samples / corpusSize when that quotient is not an
\* integer, and the quotient or one less when it is; it is 66 for a bucket
\* of 10 in a corpus of 15 and 100 samples.
C6_CountTruncatesShare ==
    (call.op = "get_sampling_count" /\ err = NoError) =>
        LET product == AskedBucketSize * call.num_samples
            floor   == product \div Len(data)
            least   == Min(MinPerDepth, AskedBucketSize)
        IN  /\ product % Len(data) # 0 => ret = Max(least, floor)
            /\ product % Len(data) = 0 => ret \in {Max(least, floor), Max(least, floor - 1)}
            /\ (AskedBucketSize = 10 /\ Len(data) = 15 /\ call.num_samples = 100) => ret = 66

\* get_sampling_count has answered 66 for a bucket of 10 in a corpus of 15
\* and 100 samples.
C6_Witness ==
    /\ call.op = "get_sampling_count"
    /\ err = NoError
    /\ AskedBucketSize = 10
    /\ Len(data) = 15
    /\ call.num_samples = 100
    /\ ret = 66

\* C8 as stated: asked about a depth the index does not hold,
\* get_sampling_count raises nothing and counts zero.
C8_MissingDepthCountsZero ==
    (call.op = "get_sampling_count" /\ ~HasKey(depth_map, call.depth)) =>
        /\ err = NoError
        /\ ret = 0

\* C8 amended: asked about a depth the index does not hold,
\* get_sampling_count raises KeyError and returns no count, leaving corpus
\* and index as they were; it raises KeyError in no other case.
C8_MissingDepthRaises ==
    call.op = "get_sampling_count" =>
        /\ ~HasKey(depth_map, call.depth) <=> err = "KeyError"
        /\ err = "KeyError" => ret = None
        /\ data = old_data
        /\ depth_map = old_depth_map

\* get_sampling_count has raised KeyError for a depth absent from an index
\* that holds other depths.
C8_Witness ==
    /\ call.op = "get_sampling_count"
    /\ err = "KeyError"
    /\ Len(depth_map) >= 2

====
